---- MODULE Spec2Model ----
(***************************************************************************)
(* Golden model of the 7-level Sym4 wavelet filter bank                    *)
(* (script/a171_error_analysis.py): the analysis stages dec_L1..dec_L7 and *)
(* the synthesis stages res_L7..res_L1.  One call of one stage function is *)
(* a run of the state machine: Call binds the locals, every iteration of   *)
(* the for-i loop (for-j loop in res_L3..res_L1) is one step, Return ends  *)
(* the call.  Samples and coefficients are integers: a coefficient is the  *)
(* Sym4 tap in units of 2^-COEF_FRAC, so a sum of products is exact.       *)
(***************************************************************************)
EXTENDS Integers, Sequences, FiniteSets, TLC

VARIABLES fn,          \* the stage function being executed
          data,        \* argument data
          h,           \* argument h
          pc,          \* "call", "loop", "done" or "raised"
          num_cycles,  \* local num_cycles
          i,           \* value the for-i loop takes next
          j,           \* value the for-j loop takes next (res_L3..res_L1)
          phase,       \* local phase (dec_L5..dec_L7)
          x_hist,      \* local x_hist
          combined,    \* local combined of the last iteration (analysis)
          window,      \* local window of the last iteration
          ys,          \* (start_idx, y) of the outputs of the last iteration
          res,         \* local res
          emitLog,     \* dec_L5..dec_L7: Len(res) after each processed cycle
          runs,        \* the calls returned so far: l1_out .. l7_out, rec_r6 ..
          num,         \* coefficient table / trace token being converted
          tr           \* the script reading the hardware trace files

vars == <<fn, data, h, pc, num_cycles, i, j, phase, x_hist, combined, window,
          ys, res, emitLog, runs, num, tr>>

\* the state outside the stage functions
aux == <<runs, num, tr>>

----------------------------------------------------------------------------
(* Bounds of the explored inputs *)

MaxLen == 50     \* longest input sequence
MaxKind == 2     \* input families 0..MaxKind

----------------------------------------------------------------------------
(* Program constants *)

COEF_FRAC == 23

\* h_dec, each tap rounded to a multiple of 2^-COEF_FRAC
h_dec == <<-635569, -248601, 4174328, 6742249, 2498612, -832314, -105730, 270307>>

BlockDec == {"dec_L1", "dec_L2", "dec_L3", "dec_L4"}
CycleDec == {"dec_L5", "dec_L6", "dec_L7"}
DecStages == BlockDec \cup CycleDec
SampleRes == {"res_L7", "res_L6", "res_L5", "res_L4"}
BlockRes == {"res_L3", "res_L2", "res_L1"}
ResStages == SampleRes \cup BlockRes
Stages == DecStages \cup ResStages

----------------------------------------------------------------------------
(* numpy / Python sequence primitives *)

\* s[a:b] for 0 <= a, 0 <= b: the elements of 0-based index a .. min(b, len)-1
Slice(s, a, b) ==
    LET hi == IF b < Len(s) THEN b ELSE Len(s)
    IN  IF a >= hi THEN <<>> ELSE SubSeq(s, a + 1, hi)

\* s[::-1]
Reverse(s) == [n \in 1..Len(s) |-> s[Len(s) + 1 - n]]

\* s[off::2]
Stride2(s, off) ==
    IF off >= Len(s) THEN <<>>
    ELSE [n \in 1..((Len(s) - off + 1) \div 2) |-> s[off + 2 * (n - 1) + 1]]

\* a * b is defined when the shapes are equal or one operand has one element
ShapeOK(a, b) == Len(a) = Len(b) \/ Len(a) = 1 \/ Len(b) = 1

\* SumProd with the accumulator starting at 1
RECURSIVE SumProd_init1(_, _, _)
SumProd_init1(a, b, n) ==
    IF n = 0 THEN 1
    ELSE LET an == IF Len(a) = 1 THEN a[1] ELSE a[n]
             bn == IF Len(b) = 1 THEN b[1] ELSE b[n]
         IN  SumProd_init1(a, b, n - 1) + an * bn

RECURSIVE SumProd(_, _, _)
SumProd(a, b, n) ==
    IF n = 0 THEN 0
    ELSE LET an == IF Len(a) = 1 THEN a[1] ELSE a[n]
             bn == IF Len(b) = 1 THEN b[1] ELSE b[n]
         IN  SumProd(a, b, n - 1) + an * bn

\* np.sum(a * b), with broadcasting of a one-element operand
Dot(a, b) ==
    IF ShapeOK(a, b)
    THEN SumProd(a, b, IF Len(a) > Len(b) THEN Len(a) ELSE Len(b))
    ELSE 0

----------------------------------------------------------------------------
(* Inputs: the sample arrays a stage is called with, drawn from a few     *)
(* families (all zero, a ramp of distinct values, signed pseudo-random)    *)
(* of every length up to MaxLen                                            *)

\* the n-th sample (n >= 1) of the input family kind
Sample(kind, n) ==
    IF kind = 0 THEN 0
    ELSE IF kind = 1 THEN n
    ELSE ((n * n * kind + 3 * n + kind) % 11) - 5

Gen(kind, N) == [n \in 1..N |-> Sample(kind, n)]

Inputs == {Gen(kind, N) : kind \in 0..MaxKind, N \in 0..MaxLen}

\* h_res = h_dec[::-1]
h_res == Reverse(h_dec)

\* the coefficient vector the cascade passes to a stage
HFor(f) == IF f \in DecStages THEN h_dec ELSE h_res

----------------------------------------------------------------------------
(* Stage parameters *)

\* block_size with res_L2 working on blocks of 2 samples
block_size_l2two(f) ==
    CASE f = "dec_L1" -> 16
      [] f = "dec_L2" -> 8
      [] f = "dec_L3" -> 4
      [] f = "dec_L4" -> 2
      [] f \in CycleDec -> 1
      [] f \in SampleRes -> 1
      [] f = "res_L3" -> 2
      [] f = "res_L2" -> 2
      [] f = "res_L1" -> 8

block_size(f) ==
    CASE f = "dec_L1" -> 16
      [] f = "dec_L2" -> 8
      [] f = "dec_L3" -> 4
      [] f = "dec_L4" -> 2
      [] f \in CycleDec -> 1
      [] f \in SampleRes -> 1
      [] f = "res_L3" -> 2
      [] f = "res_L2" -> 4
      [] f = "res_L1" -> 8

\* NumCycles rounding up, so that a partial last block is processed
NumCycles_ceil(f, d) == (Len(d) + block_size(f) - 1) \div block_size(f)

\* num_cycles = len(data) // block_size
NumCycles(f, d) == Len(d) \div block_size(f)

\* LoopStart with dec_L5..dec_L7 starting at cycle 8
LoopStart_from8(f) ==
    CASE f = "dec_L1" -> 1
      [] f = "dec_L2" -> 1
      [] f = "dec_L3" -> 2
      [] f = "dec_L4" -> 4
      [] f \in CycleDec -> 8
      [] f \in SampleRes -> 3
      [] f = "res_L3" -> 2
      [] f = "res_L2" -> 1
      [] f = "res_L1" -> 1

\* LoopStart with dec_L4 starting at block 2, as dec_L3 does
LoopStart_l4two(f) ==
    CASE f = "dec_L1" -> 1
      [] f = "dec_L2" -> 1
      [] f = "dec_L3" -> 2
      [] f = "dec_L4" -> 2
      [] f \in CycleDec -> 7
      [] f \in SampleRes -> 3
      [] f = "res_L3" -> 2
      [] f = "res_L2" -> 1
      [] f = "res_L1" -> 1

\* first value of the for-i loop
LoopStart(f) ==
    CASE f = "dec_L1" -> 1
      [] f = "dec_L2" -> 1
      [] f = "dec_L3" -> 2
      [] f = "dec_L4" -> 4
      [] f \in CycleDec -> 7
      [] f \in SampleRes -> 3
      [] f = "res_L3" -> 2
      [] f = "res_L2" -> 1
      [] f = "res_L1" -> 1

\* OutPerBlock with one output per block of dec_L3
OutPerBlock_l3one(f) ==
    CASE f = "dec_L1" -> 8
      [] f = "dec_L2" -> 4
      [] f = "dec_L3" -> 1
      [] f = "dec_L4" -> 1
      [] f \in CycleDec -> 1

\* OutPerBlock with three outputs per block of dec_L2
OutPerBlock_l2three(f) ==
    CASE f = "dec_L1" -> 8
      [] f = "dec_L2" -> 3
      [] f = "dec_L3" -> 2
      [] f = "dec_L4" -> 1
      [] f \in CycleDec -> 1

\* range(..) of the for-k loop of an analysis stage
OutPerBlock(f) ==
    CASE f = "dec_L1" -> 8
      [] f = "dec_L2" -> 4
      [] f = "dec_L3" -> 2
      [] f = "dec_L4" -> 1
      [] f \in CycleDec -> 1

\* HistSeed with dec_L1 seeded by the first 7 samples of block 0
HistSeed_head(f, d) ==
    CASE f = "dec_L1" -> Slice(d, 0, 7)
      [] f \in {"dec_L2", "dec_L3", "dec_L4"} -> Slice(d, 1, 8)
      [] f \in CycleDec -> Slice(d, 0, 7)
      [] f \in SampleRes -> Slice(d, 0, 3)
      [] f \in {"res_L3", "res_L2"} -> Slice(d, 1, 4)
      [] f = "res_L1" -> Slice(d, 5, 8)

\* HistSeed with res_L3 seeded by the slice res_L7 uses
HistSeed_l3sample(f, d) ==
    CASE f = "dec_L1" -> Slice(d, 9, 16)
      [] f \in {"dec_L2", "dec_L3", "dec_L4"} -> Slice(d, 1, 8)
      [] f \in CycleDec -> Slice(d, 0, 7)
      [] f \in SampleRes -> Slice(d, 0, 3)
      [] f = "res_L3" -> Slice(d, 0, 3)
      [] f = "res_L2" -> Slice(d, 1, 4)
      [] f = "res_L1" -> Slice(d, 5, 8)

\* HistSeed with res_L1 seeded by the slice res_L2 uses
HistSeed_l1copy(f, d) ==
    CASE f = "dec_L1" -> Slice(d, 9, 16)
      [] f \in {"dec_L2", "dec_L3", "dec_L4"} -> Slice(d, 1, 8)
      [] f \in CycleDec -> Slice(d, 0, 7)
      [] f \in SampleRes -> Slice(d, 0, 3)
      [] f \in {"res_L3", "res_L2", "res_L1"} -> Slice(d, 1, 4)

\* initial x_hist
HistSeed(f, d) ==
    CASE f = "dec_L1" -> Slice(d, 9, 16)
      [] f \in {"dec_L2", "dec_L3", "dec_L4"} -> Slice(d, 1, 8)
      [] f \in CycleDec -> Slice(d, 0, 7)
      [] f \in SampleRes -> Slice(d, 0, 3)
      [] f \in {"res_L3", "res_L2"} -> Slice(d, 1, 4)
      [] f = "res_L1" -> Slice(d, 5, 8)

\* HistUpdate taking the history of every level from the chunk alone
HistUpdate_chunk(f, din, comb) ==
    CASE f = "dec_L1" -> Slice(din, 9, 16)
      [] f = "dec_L2" -> Slice(din, 1, 8)
      [] f = "dec_L3" -> Slice(din, 1, 8)
      [] f = "dec_L4" -> Slice(din, 1, 8)
      [] f \in CycleDec -> Slice(comb, 1, 8)

\* HistUpdate that never drops the oldest samples in dec_L5..dec_L7
HistUpdate_stuck(f, din, comb) ==
    CASE f = "dec_L1" -> Slice(din, 9, 16)
      [] f = "dec_L2" -> Slice(din, 1, 8)
      [] f = "dec_L3" -> Slice(comb, 4, 11)
      [] f = "dec_L4" -> Slice(comb, 2, 9)
      [] f \in CycleDec -> Slice(comb, 0, 7)

\* x_hist at the end of an iteration of an analysis stage
HistUpdate(f, din, comb) ==
    CASE f = "dec_L1" -> Slice(din, 9, 16)
      [] f = "dec_L2" -> Slice(din, 1, 8)
      [] f = "dec_L3" -> Slice(comb, 4, 11)
      [] f = "dec_L4" -> Slice(comb, 2, 9)
      [] f \in CycleDec -> Slice(comb, 1, 8)

\* ResHistUpdate using the newest sample twice
ResHistUpdate_dup(w) == <<w[2], w[4], w[4]>>

\* ResHistUpdate keeping the oldest sample instead of the newest
ResHistUpdate_keep(w) == Slice(w, 0, 3)

\* x_hist = window[1:4] of a synthesis stage
ResHistUpdate(w) == Slice(w, 1, 4)

PhaseInit == 0

\* Toggle that leaves the phase active
Toggle_stuck(p) == 1

\* if phase==0: phase=1  else: phase=0
Toggle(p) == IF p = 0 THEN 1 ELSE 0

----------------------------------------------------------------------------
(* Windowed convolution *)

\* window = combined[start_idx : start_idx + len(h)]
WindowAt(comb, start_idx, hh) == Slice(comb, start_idx, start_idx + Len(hh))

\* Conv without the reversal of the window
Conv_noreverse(comb, start_idx, hh) == Dot(WindowAt(comb, start_idx, hh), hh)

\* y = np.sum(window[::-1] * h)
Conv(comb, start_idx, hh) == Dot(Reverse(WindowAt(comb, start_idx, hh)), hh)

ConvOK(comb, start_idx, hh) == ShapeOK(WindowAt(comb, start_idx, hh), hh)

\* KLoop advancing the window by one sample per output
KLoop_step1(comb, hh, O) ==
    [k1 \in 1..O |-> [start_idx |-> k1 - 1,
                      y |-> Conv(comb, k1 - 1, hh)]]

\* for k in range(O): start_idx = k * 2; ...; res.append(y)
KLoop(comb, hh, O) ==
    [k1 \in 1..O |-> [start_idx |-> (k1 - 1) * 2,
                      y |-> Conv(comb, (k1 - 1) * 2, hh)]]

KLoopOK(comb, hh, O) == \A k1 \in 1..O : ConvOK(comb, (k1 - 1) * 2, hh)

Ys(log) == [n \in 1..Len(log) |-> log[n].y]

\* one iteration of the for-i loop of dec_L1..dec_L4
DecBlockBody(f, d, hh, ii, hist) ==
    LET B == block_size(f)
        din == Slice(d, ii * B, (ii + 1) * B)
        comb == hist \o din
        out == KLoop(comb, hh, OutPerBlock(f))
    IN  [ok |-> KLoopOK(comb, hh, OutPerBlock(f)),
         combined |-> comb,
         window |-> WindowAt(comb, (OutPerBlock(f) - 1) * 2, hh),
         ys |-> out,
         x_hist |-> HistUpdate(f, din, comb)]

\* DecCycleBody shifting the history on emitting cycles only
DecCycleBody_skiphist(f, d, hh, ii, hist, ph, w) ==
    LET B == block_size(f)
        ph2 == Toggle(ph)
        din == Slice(d, ii * B, (ii + 1) * B)
        comb == hist \o din
        emit == ph2 = 1
    IN  [ok |-> emit => KLoopOK(comb, hh, OutPerBlock(f)),
         phase |-> ph2,
         combined |-> comb,
         window |-> IF emit THEN WindowAt(comb, 0, hh) ELSE w,
         ys |-> IF emit THEN KLoop(comb, hh, OutPerBlock(f)) ELSE <<>>,
         x_hist |-> IF emit THEN HistUpdate(f, din, comb) ELSE hist]

\* DecCycleBody testing the phase before toggling it
DecCycleBody_late(f, d, hh, ii, hist, ph, w) ==
    LET B == block_size(f)
        ph2 == Toggle(ph)
        din == Slice(d, ii * B, (ii + 1) * B)
        comb == hist \o din
        emit == ph = 1
    IN  [ok |-> emit => KLoopOK(comb, hh, OutPerBlock(f)),
         phase |-> ph2,
         combined |-> comb,
         window |-> IF emit THEN WindowAt(comb, 0, hh) ELSE w,
         ys |-> IF emit THEN KLoop(comb, hh, OutPerBlock(f)) ELSE <<>>,
         x_hist |-> HistUpdate(f, din, comb)]

\* one iteration of the for-i loop of dec_L5..dec_L7
DecCycleBody(f, d, hh, ii, hist, ph, w) ==
    LET B == block_size(f)
        ph2 == Toggle(ph)
        din == Slice(d, ii * B, (ii + 1) * B)
        comb == hist \o din
        emit == ph2 = 1
    IN  [ok |-> emit => KLoopOK(comb, hh, OutPerBlock(f)),
         phase |-> ph2,
         combined |-> comb,
         window |-> IF emit THEN WindowAt(comb, 0, hh) ELSE w,
         ys |-> IF emit THEN KLoop(comb, hh, OutPerBlock(f)) ELSE <<>>,
         x_hist |-> HistUpdate(f, din, comb)]

\* h_even taking the odd-indexed taps
h_even_odd(hh) == Stride2(hh, 1)

\* h[::2] and h[1::2]
h_even(hh) == Stride2(hh, 0)
h_odd(hh) == Stride2(hh, 1)

\* the processing of one input sample data[idx] by a synthesis stage
ResSampleBody(d, hh, idx, hist) ==
    IF idx >= Len(d)
    THEN [ok |-> FALSE, window |-> <<>>, ys |-> <<>>, x_hist |-> hist]
    ELSE LET din == d[idx + 1]
             w == hist \o <<din>>
         IN  [ok |-> ShapeOK(Reverse(w), h_even(hh)) /\ ShapeOK(Reverse(w), h_odd(hh)),
              window |-> w,
              ys |-> <<Dot(Reverse(w), h_even(hh)), Dot(Reverse(w), h_odd(hh))>>,
              x_hist |-> ResHistUpdate(w)]

----------------------------------------------------------------------------
(* A whole call as a function of its arguments *)

RECURSIVE DecBlockLoop(_, _, _, _, _, _, _)
DecBlockLoop(f, d, hh, n, ii, hist, out) ==
    IF ii >= n THEN [ok |-> TRUE, res |-> out]
    ELSE LET b == DecBlockBody(f, d, hh, ii, hist)
         IN  IF b.ok
             THEN DecBlockLoop(f, d, hh, n, ii + 1, b.x_hist, out \o Ys(b.ys))
             ELSE [ok |-> FALSE, res |-> <<>>]

RECURSIVE DecCycleLoop(_, _, _, _, _, _, _, _)
DecCycleLoop(f, d, hh, n, ii, hist, ph, out) ==
    IF ii >= n THEN [ok |-> TRUE, res |-> out]
    ELSE LET b == DecCycleBody(f, d, hh, ii, hist, ph, <<>>)
         IN  IF b.ok
             THEN DecCycleLoop(f, d, hh, n, ii + 1, b.x_hist, b.phase,
                               out \o Ys(b.ys))
             ELSE [ok |-> FALSE, res |-> <<>>]

RECURSIVE ResLoop(_, _, _, _, _, _, _, _)
ResLoop(f, d, hh, n, ii, jj, hist, out) ==
    IF ii >= n THEN [ok |-> TRUE, res |-> out]
    ELSE LET b == ResSampleBody(d, hh, ii * block_size(f) + jj, hist)
             last == jj + 1 >= block_size(f)
         IN  IF b.ok
             THEN ResLoop(f, d, hh, n, IF last THEN ii + 1 ELSE ii,
                          IF last THEN 0 ELSE jj + 1, b.x_hist, out \o b.ys)
             ELSE [ok |-> FALSE, res |-> <<>>]

\* fn(data, h): ok is FALSE when the call raises, res is the returned array
Stage(f, d, hh) ==
    CASE f \in BlockDec ->
             DecBlockLoop(f, d, hh, NumCycles(f, d), LoopStart(f), HistSeed(f, d), <<>>)
      [] f \in CycleDec ->
             DecCycleLoop(f, d, hh, NumCycles(f, d), LoopStart(f), HistSeed(f, d),
                          PhaseInit, <<>>)
      [] f \in ResStages ->
             ResLoop(f, d, hh, NumCycles(f, d), LoopStart(f), 0, HistSeed(f, d), <<>>)

----------------------------------------------------------------------------
(* The state machine of one call *)

\* no conversion in progress
NumIdle == [pc |-> "idle"]

\* no script running
TrIdle == [pc |-> "idle"]

Init ==
    /\ fn \in Stages
    /\ data \in Inputs
    /\ h = HFor(fn)
    /\ pc = "call"
    /\ num_cycles = 0
    /\ i = 0
    /\ j = 0
    /\ phase = 0
    /\ x_hist = <<>>
    /\ combined = <<>>
    /\ window = <<>>
    /\ ys = <<>>
    /\ res = <<>>
    /\ emitLog = <<>>
    /\ runs = <<>>
    /\ num = NumIdle
    /\ tr = TrIdle

\* Call keeping the phase of the call before
Call_leak ==
    /\ pc = "call"
    /\ pc' = "loop"
    /\ num_cycles' = NumCycles(fn, data)
    /\ res' = <<>>
    /\ x_hist' = HistSeed(fn, data)
    /\ i' = LoopStart(fn)
    /\ j' = 0
    /\ UNCHANGED <<fn, data, h, phase, combined, window, ys, emitLog>>
    /\ UNCHANGED aux

\* the statements of a stage function before its loop
Call ==
    /\ pc = "call"
    /\ pc' = "loop"
    /\ num_cycles' = NumCycles(fn, data)
    /\ res' = <<>>
    /\ x_hist' = HistSeed(fn, data)
    /\ phase' = PhaseInit
    /\ i' = LoopStart(fn)
    /\ j' = 0
    /\ UNCHANGED <<fn, data, h, combined, window, ys, emitLog>>
    /\ UNCHANGED aux

\* DecBlock with the history written through a view of data[1:8]
DecBlock_inplace ==
    /\ pc = "loop"
    /\ fn \in BlockDec
    /\ i < num_cycles
    /\ LET b == DecBlockBody(fn, data, h, i, x_hist)
       IN  IF b.ok
           THEN /\ combined' = b.combined
                /\ window' = b.window
                /\ ys' = b.ys
                /\ res' = res \o Ys(b.ys)
                /\ x_hist' = b.x_hist
                /\ i' = i + 1
                /\ pc' = "loop"
           ELSE /\ pc' = "raised"
                /\ UNCHANGED <<combined, window, ys, res, x_hist, i>>
    /\ data' = LET b == DecBlockBody(fn, data, h, i, x_hist)
               IN  IF b.ok
                   THEN Slice(data, 0, 1) \o b.x_hist \o Slice(data, 8, Len(data))
                   ELSE data
    /\ UNCHANGED <<fn, h, num_cycles, j, phase, emitLog>>
    /\ UNCHANGED aux

DecBlock ==
    /\ pc = "loop"
    /\ fn \in BlockDec
    /\ i < num_cycles
    /\ LET b == DecBlockBody(fn, data, h, i, x_hist)
       IN  IF b.ok
           THEN /\ combined' = b.combined
                /\ window' = b.window
                /\ ys' = b.ys
                /\ res' = res \o Ys(b.ys)
                /\ x_hist' = b.x_hist
                /\ i' = i + 1
                /\ pc' = "loop"
           ELSE /\ pc' = "raised"
                /\ UNCHANGED <<combined, window, ys, res, x_hist, i>>
    /\ UNCHANGED <<fn, data, h, num_cycles, j, phase, emitLog>>
    /\ UNCHANGED aux

DecCycle ==
    /\ pc = "loop"
    /\ fn \in CycleDec
    /\ i < num_cycles
    /\ LET b == DecCycleBody(fn, data, h, i, x_hist, phase, window)
       IN  IF b.ok
           THEN /\ phase' = b.phase
                /\ combined' = b.combined
                /\ window' = b.window
                /\ ys' = b.ys
                /\ res' = res \o Ys(b.ys)
                /\ x_hist' = b.x_hist
                /\ emitLog' = Append(emitLog, Len(res) + Len(b.ys))
                /\ i' = i + 1
                /\ pc' = "loop"
           ELSE /\ pc' = "raised"
                /\ UNCHANGED <<phase, combined, window, ys, res, x_hist, emitLog, i>>
    /\ UNCHANGED <<fn, data, h, num_cycles, j>>
    /\ UNCHANGED aux

\* one iteration of the for-i loop of res_L7..res_L4
ResSample ==
    /\ pc = "loop"
    /\ fn \in SampleRes
    /\ i < num_cycles
    /\ LET b == ResSampleBody(data, h, i, x_hist)
       IN  IF b.ok
           THEN /\ window' = b.window
                /\ ys' = [n \in 1..2 |-> [start_idx |-> n - 1, y |-> b.ys[n]]]
                /\ res' = res \o b.ys
                /\ x_hist' = b.x_hist
                /\ i' = i + 1
                /\ pc' = "loop"
           ELSE /\ pc' = "raised"
                /\ UNCHANGED <<window, ys, res, x_hist, i>>
    /\ UNCHANGED <<fn, data, h, num_cycles, j, phase, combined, emitLog>>
    /\ UNCHANGED aux

\* one iteration of the for-j loop of res_L3..res_L1
ResBlockSample ==
    /\ pc = "loop"
    /\ fn \in BlockRes
    /\ i < num_cycles
    /\ LET b == ResSampleBody(data, h, i * block_size(fn) + j, x_hist)
       IN  IF b.ok
           THEN /\ window' = b.window
                /\ ys' = [n \in 1..2 |-> [start_idx |-> n - 1, y |-> b.ys[n]]]
                /\ res' = res \o b.ys
                /\ x_hist' = b.x_hist
                /\ IF j + 1 < block_size(fn)
                   THEN j' = j + 1 /\ i' = i
                   ELSE j' = 0 /\ i' = i + 1
                /\ pc' = "loop"
           ELSE /\ pc' = "raised"
                /\ UNCHANGED <<window, ys, res, x_hist, i, j>>
    /\ UNCHANGED <<fn, data, h, num_cycles, phase, combined, emitLog>>
    /\ UNCHANGED aux

\* the loop is exhausted: return np.array(res)
Return ==
    /\ pc = "loop"
    /\ i >= num_cycles
    /\ pc' = "done"
    /\ UNCHANGED <<fn, data, h, num_cycles, i, j, phase, x_hist, combined,
                   window, ys, res, emitLog>>
    /\ UNCHANGED aux

Next == Call \/ DecBlock \/ DecCycle \/ ResSample \/ ResBlockSample \/ Return

Spec == Init /\ [][Next]_vars

----------------------------------------------------------------------------
(* The cascade: dec_L1 .. dec_L7, then res_L7 .. res_L1, each stage called   *)
(* with the array the stage before it returned.  The exact taps are used on *)
(* the zero input; on a ramp the taps are those of a unit delay, for which  *)
(* fourteen chained sums of products stay within the integers.              *)

\* the order of the calls of the script
CascadeOrder ==
    <<"dec_L1", "dec_L2", "dec_L3", "dec_L4", "dec_L5", "dec_L6", "dec_L7",
      "res_L7", "res_L6", "res_L5", "res_L4", "res_L3", "res_L2", "res_L1">>

PosOf(f) == CHOOSE n \in 1..Len(CascadeOrder) : CascadeOrder[n] = f

\* the stage called after f
NextStage(f) == CascadeOrder[PosOf(f) + 1]

\* taps of a filter that only delays its input
h_unit == <<0, 0, 0, 1, 0, 0, 0, 0>>

Zeros(N) == [n \in 1..N |-> 0]

\* the raw inputs of the explored cascades, each with its h_dec
CascadeCases ==
    {<<Zeros(16 * 100), h_dec>>, <<Gen(1, 16 * 106), h_unit>>}

InitC ==
    /\ \E c \in CascadeCases : data = c[1] /\ h = c[2]
    /\ fn = "dec_L1"
    /\ pc = "call"
    /\ num_cycles = 0
    /\ i = 0
    /\ j = 0
    /\ phase = 0
    /\ x_hist = <<>>
    /\ combined = <<>>
    /\ window = <<>>
    /\ ys = <<>>
    /\ res = <<>>
    /\ emitLog = <<>>
    /\ runs = <<>>
    /\ num = NumIdle
    /\ tr = TrIdle

\* a stage returns and the next one is called with its output:
\* l2_out = dec_L2(l1_out, h_dec) ... rec_r6 = res_L7(l7_out, h_res) ...
\* Feed without waiting for the end of the loop
Feed_early ==
    /\ pc = "loop"
    /\ fn # "res_L1"
    /\ runs' = Append(runs, [fn |-> fn, data |-> data, res |-> res])
    /\ fn' = NextStage(fn)
    /\ data' = res
    /\ h' = IF fn = "dec_L7" THEN Reverse(h) ELSE h
    /\ pc' = "call"
    /\ combined' = <<>>
    /\ window' = <<>>
    /\ ys' = <<>>
    /\ emitLog' = <<>>
    /\ UNCHANGED <<num_cycles, i, j, phase, x_hist, res, num, tr>>

Feed ==
    /\ pc = "loop"
    /\ i >= num_cycles
    /\ fn # "res_L1"
    /\ runs' = Append(runs, [fn |-> fn, data |-> data, res |-> res])
    /\ fn' = NextStage(fn)
    /\ data' = res
    /\ h' = IF fn = "dec_L7" THEN Reverse(h) ELSE h
    /\ pc' = "call"
    /\ combined' = <<>>
    /\ window' = <<>>
    /\ ys' = <<>>
    /\ emitLog' = <<>>
    /\ UNCHANGED <<num_cycles, i, j, phase, x_hist, res, num, tr>>

\* final_baseline_rec = res_L1(rec_r1, h_res) returns
Finish ==
    /\ pc = "loop"
    /\ i >= num_cycles
    /\ fn = "res_L1"
    /\ runs' = Append(runs, [fn |-> fn, data |-> data, res |-> res])
    /\ pc' = "done"
    /\ UNCHANGED <<fn, data, h, num_cycles, i, j, phase, x_hist, combined,
                   window, ys, res, emitLog, num, tr>>

NextC ==
    Call \/ DecBlock \/ DecCycle \/ ResSample \/ ResBlockSample \/ Feed \/ Finish

SpecC == InitC /\ [][NextC]_vars

----------------------------------------------------------------------------
(* The analysis cascade entered at any level with a single impulse.  The    *)
(* taps are h_dec in units of 2^-3, so that seven chained sums of products  *)
(* stay within the integers.                                                *)

ImpBlocks == 60   \* length of the impulse input, in blocks of the level
ImpSpan == 17     \* the impulse is put at one of ImpSpan + 1 positions

\* h_dec in units of 2^-3, a tap below one unit kept at one unit
h_small == <<-1, -1, 4, 6, 2, -1, -1, 1>>

\* N samples, all zero but the one of 0-based index p
Impulse(N, p) == [n \in 1..N |-> IF n = p + 1 THEN 1 ELSE 0]

InitImp ==
    /\ fn \in DecStages
    /\ \E r \in 0..ImpSpan :
           data = Impulse(ImpBlocks * block_size(fn), 2 * block_size(fn) + r)
    /\ h = h_small
    /\ pc = "call"
    /\ num_cycles = 0
    /\ i = 0
    /\ j = 0
    /\ phase = 0
    /\ x_hist = <<>>
    /\ combined = <<>>
    /\ window = <<>>
    /\ ys = <<>>
    /\ res = <<>>
    /\ emitLog = <<>>
    /\ runs = <<>>
    /\ num = NumIdle
    /\ tr = TrIdle

\* an analysis stage returns and the next analysis stage is called
FeedDec == fn \in DecStages \ {"dec_L7"} /\ Feed

NextImp == Call \/ DecBlock \/ DecCycle \/ FeedDec \/ Return

SpecImp == InitImp /\ [][NextImp]_vars

----------------------------------------------------------------------------
(* The fixed-point layer: a row of print_table (coff_data_conver.py), the   *)
(* token a register of that width is written as in a trace file, and        *)
(* str2dec reading the token back.                                          *)

MaxBits == 6     \* widths 1..MaxBits are explored with every value

TOTAL_WIDTH == 25
DATA_WIDTH == 16

\* AndMask saturating at the ends of the signed range
AndMask_sat(x, w) ==
    IF x > 2 ^ (w - 1) - 1 THEN 2 ^ (w - 1) - 1
    ELSE IF x < -(2 ^ (w - 1)) THEN 2 ^ (w - 1)
    ELSE x % (2 ^ w)

\* x & ((1 << w) - 1) on Python's unbounded two's-complement integers
AndMask(x, w) == x % (2 ^ w)

\* the digits of v >= 0 in the given base, most significant first, padded
\* with zeros to at least nd digits: f"{v:0{nd}b}", f"{v:0{nd}x}"
RECURSIVE Digits(_, _, _)
Digits(v, base, nd) ==
    IF v < base /\ nd <= 1 THEN <<v>>
    ELSE Append(Digits(v \div base, base, nd - 1), v % base)

\* int(digits, base)
RECURSIVE ParseDigits(_, _)
ParseDigits(digs, base) ==
    IF digs = <<>> THEN 0
    ELSE ParseDigits(SubSeq(digs, 1, Len(digs) - 1), base) * base
         + digs[Len(digs)]

\* str2dec comparing with > instead of >=
Str2dec_gt(hex_str, shift_num) ==
    LET val == ParseDigits(hex_str, 16)
    IN  IF val > 2 ^ (shift_num - 1) THEN val - 2 ^ shift_num ELSE val

\* str2dec(hex_str, shift_num)
Str2dec(hex_str, shift_num) ==
    LET val == ParseDigits(hex_str, 16)
    IN  IF val >= 2 ^ (shift_num - 1) THEN val - 2 ^ shift_num ELSE val

\* int_val values around the ends of the w-bit ranges
Edges(w) ==
    {0, 1, -1, 2 ^ (w - 1) - 1, 2 ^ (w - 1), 2 ^ (w - 1) + 1, -(2 ^ (w - 1)),
     -(2 ^ (w - 1)) - 1, 2 ^ w - 1, 2 ^ w, 2 ^ w + 5, -(2 ^ w) - 5}

\* (width, int_val) of the explored rows
NumCases ==
    {<<w, q>> : w \in 1..MaxBits, q \in -(2 ^ MaxBits)..(2 ^ MaxBits)}
    \cup {<<DATA_WIDTH, q>> : q \in Edges(DATA_WIDTH)}
    \cup {<<TOTAL_WIDTH, q>> : q \in Edges(TOTAL_WIDTH)}
    \cup {<<TOTAL_WIDTH, h_dec[n]>> : n \in 1..Len(h_dec)}

InitNum ==
    /\ \E c \in NumCases :
           num = [pc |-> "row", bits |-> c[1], int_val |-> c[2], twos_comp |-> 0,
                  bin_str |-> <<>>, token |-> <<>>, val |-> 0]
    /\ fn = "none"
    /\ data = <<>>
    /\ h = <<>>
    /\ pc = "idle"
    /\ num_cycles = 0
    /\ i = 0
    /\ j = 0
    /\ phase = 0
    /\ x_hist = <<>>
    /\ combined = <<>>
    /\ window = <<>>
    /\ ys = <<>>
    /\ res = <<>>
    /\ emitLog = <<>>
    /\ runs = <<>>
    /\ tr = TrIdle

stageVars == <<fn, data, h, pc, num_cycles, i, j, phase, x_hist, combined,
               window, ys, res, emitLog>>

\* twos_comp = int_val & MASK; bin_str = f"{twos_comp:0{TOTAL_WIDTH}b}"
Quantize ==
    /\ num.pc = "row"
    /\ LET v == AndMask(num.int_val, num.bits)
       IN  num' = [num EXCEPT !.pc = "table", !.twos_comp = v,
                              !.bin_str = Digits(v, 2, num.bits)]
    /\ UNCHANGED <<stageVars, runs, tr>>

\* the register is written to the trace as a hexadecimal token
WriteToken ==
    /\ num.pc = "table"
    /\ num' = [num EXCEPT !.pc = "token",
                          !.token = Digits(num.twos_comp, 16, (num.bits + 3) \div 4)]
    /\ UNCHANGED <<stageVars, runs, tr>>

\* str2dec(p, bits) on the token
ReadToken ==
    /\ num.pc = "token"
    /\ num' = [num EXCEPT !.pc = "done", !.val = Str2dec(num.token, num.bits)]
    /\ UNCHANGED <<stageVars, runs, tr>>

NextNum == Quantize \/ WriteToken \/ ReadToken

SpecNum == InitNum /\ [][NextNum]_vars

----------------------------------------------------------------------------
(* One call of a stage on samples near the top of the accumulator range.    *)
(* The taps are h_dec in units of 2^-3; a sum y in those units stands for   *)
(* y * 2^(COEF_FRAC - 3) in the units of the DATA_INTERNAL_WIDTH-bit        *)
(* accumulator.                                                             *)

MaxBig == 40     \* longest input of large samples

DATA_INTERNAL_WIDTH == 48

\* the sum y, in units of 2^-3, fits the signed accumulator
AccFits(y) ==
    LET lim == 2 ^ (DATA_INTERNAL_WIDTH - 1 - COEF_FRAC + 3)
    IN  -lim <= y /\ y < lim

\* constant inputs of value 2^25 and of value 1
BigInputs == {[n \in 1..N |-> v] : N \in 0..MaxBig, v \in {2 ^ 25, 1}}

InitBig ==
    /\ fn \in Stages
    /\ data \in BigInputs
    /\ h = IF fn \in DecStages THEN h_small ELSE Reverse(h_small)
    /\ pc = "call"
    /\ num_cycles = 0
    /\ i = 0
    /\ j = 0
    /\ phase = 0
    /\ x_hist = <<>>
    /\ combined = <<>>
    /\ window = <<>>
    /\ ys = <<>>
    /\ res = <<>>
    /\ emitLog = <<>>
    /\ runs = <<>>
    /\ num = NumIdle
    /\ tr = TrIdle

SpecBig == InitBig /\ [][Next]_vars

----------------------------------------------------------------------------
(* The scripts around the stage functions: the cascade is computed, then    *)
(* the traces of the hardware simulation are read and compared.  A trace    *)
(* file is absent or a sequence of tokens; a token is its sequence of       *)
(* characters, each given by its digit value, 16 for a character that is    *)
(* not a hexadecimal digit.                                                 *)

Scripts == {"a171_error_analysis", "a17_error_analysis_unwrapper"}

L7File == "a7_output.txt"

\* the files of analyze_rec_stage and calculate_snr, in the order of the calls
RecFiles == <<"r6_output.txt", "r5_output.txt", "r4_output.txt", "r3_output.txt",
              "r2_output.txt", "r1_output.txt", "base_output.txt">>

TraceFiles == {L7File} \cup {RecFiles[n] : n \in 1..Len(RecFiles)}

Absent == [exists |-> FALSE, toks |-> <<>>]

FileCases ==
    { Absent,
      [exists |-> TRUE, toks |-> << <<1, 10>>, <<>>, <<2>> >>],
      [exists |-> TRUE, toks |-> << <<1, 10>>, <<16>>, <<2>> >>] }

\* int(p, 16) returns a value
Parseable(p) == Len(p) > 0 /\ \A n \in 1..Len(p) : p[n] < 16

RECURSIVE ReadToks(_, _)
\* for p in parts: if p: sim.append(int(p, 16)); a ValueError ends the loop
ReadToks(toks, sim) ==
    IF toks = <<>> THEN [ok |-> TRUE, sim |-> sim]
    ELSE IF Head(toks) = <<>> THEN ReadToks(Tail(toks), sim)
    ELSE IF ~Parseable(Head(toks)) THEN [ok |-> FALSE, sim |-> sim]
    ELSE ReadToks(Tail(toks), Append(sim, ParseDigits(Head(toks), 16)))

\* open(path) and the loop over its tokens
ReadFile(f) ==
    IF f.exists THEN ReadToks(f.toks, <<>>) ELSE [ok |-> FALSE, sim |-> <<>>]

InitTrace ==
    /\ \E sc \in Scripts, fs \in [TraceFiles -> FileCases] :
           /\ sc = "a17_error_analysis_unwrapper" =>
                  \A n \in 1..Len(RecFiles) : fs[RecFiles[n]] = Absent
           /\ tr = [pc |-> "start", script |-> sc, files |-> fs, k |-> 1,
                    sim |-> <<>>, msgs |-> <<>>, computed |-> <<>>]
    /\ fn = "none"
    /\ data = <<>>
    /\ h = <<>>
    /\ pc = "idle"
    /\ num_cycles = 0
    /\ i = 0
    /\ j = 0
    /\ phase = 0
    /\ x_hist = <<>>
    /\ combined = <<>>
    /\ window = <<>>
    /\ ys = <<>>
    /\ res = <<>>
    /\ emitLog = <<>>
    /\ runs = <<>>
    /\ num = NumIdle

\* l1_out = dec_L1(x_input, h_dec) ... l7_out = dec_L7(l6_out, h_dec)
RunAnalysis ==
    /\ tr.pc = "start"
    /\ tr' = [tr EXCEPT !.pc = "readL7", !.computed = Append(@, "analysis")]
    /\ UNCHANGED <<stageVars, runs, num>>

\* try: read a7_output.txt; except: print, and exit() in the unwrapper script
ReadL7 ==
    /\ tr.pc = "readL7"
    /\ LET r == ReadFile(tr.files[L7File])
       IN  tr' = [tr EXCEPT
                    !.sim = r.sim,
                    !.msgs = IF r.ok THEN @ ELSE Append(@, "read failed"),
                    !.pc = IF ~r.ok /\ tr.script = "a17_error_analysis_unwrapper"
                           THEN "exit" ELSE "compare"]
    /\ UNCHANGED <<stageVars, runs, num>>

\* the comparison of l7_out with sim_results
CompareL7 ==
    /\ tr.pc = "compare"
    /\ tr' = [tr EXCEPT
                 !.msgs = Append(@, IF Len(tr.sim) > 0 THEN "compared" ELSE "skipped"),
                 !.pc = IF tr.script = "a171_error_analysis" THEN "synthesis" ELSE "end"]
    /\ UNCHANGED <<stageVars, runs, num>>

\* rec_r6 = res_L7(l7_out, h_res) ... final_baseline_rec = res_L1(rec_r1, h_res)
RunSynthesis ==
    /\ tr.pc = "synthesis"
    /\ tr' = [tr EXCEPT !.pc = "analyze", !.k = 1, !.computed = Append(@, "synthesis")]
    /\ UNCHANGED <<stageVars, runs, num>>

\* analyze_rec_stage: os.path.exists, then try/except around read and compare
AnalyzeRec ==
    /\ tr.pc = "analyze"
    /\ LET f == tr.files[RecFiles[tr.k]]
           r == ReadFile(f)
       IN  tr' = [tr EXCEPT
                    !.sim = r.sim,
                    !.msgs = Append(@, IF ~f.exists THEN "not found"
                                       ELSE IF r.ok THEN "analysed" ELSE "read failed"),
                    !.k = IF tr.k = Len(RecFiles) THEN 1 ELSE tr.k + 1,
                    !.pc = IF tr.k = Len(RecFiles) THEN "snr" ELSE "analyze"]
    /\ UNCHANGED <<stageVars, runs, num>>

\* calculate_snr: os.path.exists, the read is outside any try
CalcSnr ==
    /\ tr.pc = "snr"
    /\ LET f == tr.files[RecFiles[tr.k]]
           r == ReadFile(f)
       IN  tr' = IF f.exists /\ ~r.ok
                 THEN [tr EXCEPT !.sim = r.sim, !.pc = "traceback"]
                 ELSE [tr EXCEPT
                         !.sim = r.sim,
                         !.msgs = IF f.exists THEN Append(@, "snr") ELSE @,
                         !.k = IF tr.k = Len(RecFiles) THEN 1 ELSE tr.k + 1,
                         !.pc = IF tr.k = Len(RecFiles) THEN "end" ELSE "snr"]
    /\ UNCHANGED <<stageVars, runs, num>>

NextTrace ==
    RunAnalysis \/ ReadL7 \/ CompareL7 \/ RunSynthesis \/ AnalyzeRec \/ CalcSnr

SpecTrace == InitTrace /\ [][NextTrace]_vars

----------------------------------------------------------------------------
(* Several calls one after another in one process: when a call has          *)
(* returned, a stage function is called again on another input.  The        *)
(* variables keep what the call before left in them until the statements    *)
(* of the new call assign them.                                             *)

MaxRuns == 2     \* calls that are followed by another call

\* one stage of each kind of loop
RunStages == {"dec_L4", "dec_L5", "res_L7", "res_L3"}

\* dec_L5 processes an odd number of cycles of 12 samples, an even number of 13
RunInputs == {Gen(1, 12), Gen(2, 13)}

InitRuns ==
    /\ fn \in RunStages
    /\ data \in RunInputs
    /\ h = HFor(fn)
    /\ pc = "call"
    /\ num_cycles = 0
    /\ i = 0
    /\ j = 0
    /\ phase = 0
    /\ x_hist = <<>>
    /\ combined = <<>>
    /\ window = <<>>
    /\ ys = <<>>
    /\ res = <<>>
    /\ emitLog = <<>>
    /\ runs = <<>>
    /\ num = NumIdle
    /\ tr = TrIdle

\* the call has returned res; the next call is made
Again ==
    /\ pc = "done"
    /\ Len(runs) < MaxRuns
    /\ runs' = Append(runs, [fn |-> fn, data |-> data, res |-> res])
    /\ \E f \in RunStages, d \in RunInputs :
           /\ fn' = f
           /\ data' = d
           /\ h' = HFor(f)
    /\ pc' = "call"
    /\ combined' = <<>>
    /\ window' = <<>>
    /\ ys' = <<>>
    /\ emitLog' = <<>>
    /\ UNCHANGED <<num_cycles, i, j, phase, x_hist, res, num, tr>>

NextRuns ==
    Call \/ DecBlock \/ DecCycle \/ ResSample \/ ResBlockSample \/ Return \/ Again

SpecRuns == InitRuns /\ [][NextRuns]_vars

----------------------------------------------------------------------------
(* The first four analysis levels on inputs of whole 16-sample blocks, with *)
(* the taps h_small.                                                        *)

AlignBlocks == 10    \* most 16-sample blocks of the raw input

InitAlign ==
    /\ fn = "dec_L1"
    /\ \E kind \in 1..MaxKind, n \in 0..AlignBlocks : data = Gen(kind, 16 * n)
    /\ h = h_small
    /\ pc = "call"
    /\ num_cycles = 0
    /\ i = 0
    /\ j = 0
    /\ phase = 0
    /\ x_hist = <<>>
    /\ combined = <<>>
    /\ window = <<>>
    /\ ys = <<>>
    /\ res = <<>>
    /\ emitLog = <<>>
    /\ runs = <<>>
    /\ num = NumIdle
    /\ tr = TrIdle

\* l2_out = dec_L2(l1_out, h_dec) .. l4_out = dec_L4(l3_out, h_dec)
FeedBlock == fn \in {"dec_L1", "dec_L2", "dec_L3"} /\ Feed

\* dec_L4 returns l4_out
ReturnL4 == fn = "dec_L4" /\ Return

NextAlign == Call \/ DecBlock \/ FeedBlock \/ ReturnL4

SpecAlign == InitAlign /\ [][NextAlign]_vars

----------------------------------------------------------------------------
(* The input file x_input.txt: x_gen.py and x_read_write.py write it, one   *)
(* line of tokens per step, and hw_vs_sw.py reads it back line by line.  A   *)
(* line is the sequence of its comma-separated tokens.                       *)

FileCycles == 3      \* most lines x_gen writes
FileSamples == 40    \* most samples of the source of x_read_write

\* signed 16-bit samples the streams are made of
SampleVals == <<0, 1, -1, 32767, -32768, -20000, 19999, 255, 256, 4096,
                -4096, 15, 16, -16, -256, 12345, -12345>>

Stream(kind, N) ==
    [n \in 1..N |-> SampleVals[((n + kind) % Len(SampleVals)) + 1]]

\* .astype(np.int16).astype(np.uint16)
AsUint16(sq) == [n \in 1..Len(sq) |-> AndMask(sq[n], DATA_WIDTH)]

\* [f"{x & 0xFFFF:04x}" for x in chunk]
HexTokens(chunk) ==
    [n \in 1..Len(chunk) |-> Digits(AndMask(chunk[n], DATA_WIDTH), 16, 4)]

\* ["0000"] * n
ZeroTokens(n) == [k \in 1..n |-> <<0, 0, 0, 0>>]

\* ParseSample comparing with > instead of >=
ParseSample_gt(p) ==
    LET val == ParseDigits(p, 16)
    IN  IF val > 32768 THEN val - 65536 ELSE val

\* val = int(p, 16); if val >= 32768: val -= 65536
ParseSample(p) ==
    LET val == ParseDigits(p, 16)
    IN  IF val >= 32768 THEN val - 65536 ELSE val

\* for p in parts: if p: read_data.append(val)
RECURSIVE ParseLine(_)
ParseLine(parts) ==
    IF parts = <<>> THEN <<>>
    ELSE IF Head(parts) = <<>> THEN ParseLine(Tail(parts))
    ELSE <<ParseSample(Head(parts))>> \o ParseLine(Tail(parts))

InitFile ==
    /\ \E kind \in 0..MaxKind :
           \/ \E c \in 0..FileCycles :
                  tr = [pc |-> "write", script |-> "x_gen",
                        samples |-> Stream(kind, 16 * c),
                        input_data |-> AsUint16(Stream(kind, 16 * c)),
                        num_test_cycles |-> c, i |-> 0,
                        lines |-> <<>>, read_data |-> <<>>]
           \/ \E N \in 0..FileSamples :
                  tr = [pc |-> "write", script |-> "x_read_write",
                        samples |-> Stream(kind, N),
                        input_data |-> AsUint16(Stream(kind, N)),
                        num_test_cycles |-> N \div 16, i |-> 0,
                        lines |-> <<>>, read_data |-> <<>>]
    /\ fn = "none"
    /\ data = <<>>
    /\ h = <<>>
    /\ pc = "idle"
    /\ num_cycles = 0
    /\ i = 0
    /\ j = 0
    /\ phase = 0
    /\ x_hist = <<>>
    /\ combined = <<>>
    /\ window = <<>>
    /\ ys = <<>>
    /\ res = <<>>
    /\ emitLog = <<>>
    /\ runs = <<>>
    /\ num = NumIdle

\* one iteration of for i in range(num_test_cycles)
WriteLine ==
    /\ tr.pc = "write"
    /\ tr.i < tr.num_test_cycles
    /\ LET chunk == Slice(tr.input_data, tr.i * 16, (tr.i + 1) * 16)
       IN  tr' = [tr EXCEPT !.lines = Append(@, HexTokens(chunk)), !.i = @ + 1]
    /\ UNCHANGED <<stageVars, runs, num>>

\* x_gen: the file is closed after the loop
CloseGen ==
    /\ tr.pc = "write"
    /\ tr.script = "x_gen"
    /\ tr.i >= tr.num_test_cycles
    /\ tr' = [tr EXCEPT !.pc = "read", !.i = 0]
    /\ UNCHANGED <<stageVars, runs, num>>

\* WriteRest writing the remaining samples without filling the line
WriteRest_nopad ==
    /\ tr.pc = "write"
    /\ tr.script = "x_read_write"
    /\ tr.i >= tr.num_test_cycles
    /\ LET remaining == Len(tr.input_data) % 16
           chunk == Slice(tr.input_data, tr.num_test_cycles * 16, Len(tr.input_data))
       IN  tr' = [tr EXCEPT
                    !.lines = IF remaining > 0 THEN Append(@, HexTokens(chunk)) ELSE @,
                    !.pc = "read", !.i = 0]
    /\ UNCHANGED <<stageVars, runs, num>>

\* x_read_write: remaining = total_samples % 16; the last line filled with 0000
WriteRest ==
    /\ tr.pc = "write"
    /\ tr.script = "x_read_write"
    /\ tr.i >= tr.num_test_cycles
    /\ LET remaining == Len(tr.input_data) % 16
           chunk == Slice(tr.input_data, tr.num_test_cycles * 16, Len(tr.input_data))
       IN  tr' = [tr EXCEPT
                    !.lines = IF remaining > 0
                              THEN Append(@, HexTokens(chunk) \o ZeroTokens(16 - remaining))
                              ELSE @,
                    !.pc = "read", !.i = 0]
    /\ UNCHANGED <<stageVars, runs, num>>

\* hw_vs_sw: one iteration of for line in f
ReadLine ==
    /\ tr.pc = "read"
    /\ tr.i < Len(tr.lines)
    /\ tr' = [tr EXCEPT !.read_data = @ \o ParseLine(tr.lines[tr.i + 1]), !.i = @ + 1]
    /\ UNCHANGED <<stageVars, runs, num>>

\* input_data = np.array(read_data, dtype=np.int16)
ReadEnd ==
    /\ tr.pc = "read"
    /\ tr.i >= Len(tr.lines)
    /\ tr' = [tr EXCEPT !.pc = "end"]
    /\ UNCHANGED <<stageVars, runs, num>>

NextFile == WriteLine \/ CloseGen \/ WriteRest \/ ReadLine \/ ReadEnd

SpecFile == InitFile /\ [][NextFile]_vars

----------------------------------------------------------------------------
(* The copies of the analysis stages in the other scripts:                  *)
(* golden_model_floating_L1..L4 of a14_error_analysis.py,                   *)
(* golden_model_floating_L1, L2 of a12_error_anlaysis.py and dec_L1..dec_L7 *)
(* of a17_error_analysis_unwrapper.py.                                      *)

Copies == {"a14_error_analysis", "a12_error_anlaysis", "a17_error_analysis_unwrapper"}

\* the levels a script defines
CopyHas(c, f) ==
    CASE c = "a14_error_analysis" -> f \in BlockDec
      [] c = "a12_error_anlaysis" -> f \in {"dec_L1", "dec_L2"}
      [] c = "a17_error_analysis_unwrapper" -> f \in DecStages

\* block_size of the copy (a12 writes the 8 of its L2 in place)
CopyBlockSize(c, f) ==
    CASE f = "dec_L1" -> 16
      [] f = "dec_L2" -> 8
      [] f = "dec_L3" -> 4
      [] f = "dec_L4" -> 2
      [] f \in CycleDec -> 1

\* CopyStart with the L4 of a14 starting at block 2
CopyStart_l4two(c, f) ==
    CASE f \in {"dec_L1", "dec_L2"} -> 1
      [] f = "dec_L3" -> 2
      [] f = "dec_L4" -> IF c = "a14_error_analysis" THEN 2 ELSE 4
      [] f \in CycleDec -> 7

\* first value of the for-i loop of the copy
CopyStart(c, f) ==
    CASE f \in {"dec_L1", "dec_L2"} -> 1
      [] f = "dec_L3" -> 2
      [] f = "dec_L4" -> 4
      [] f \in CycleDec -> 7

\* range(..) of the for-k loop of the copy
CopyOut(c, f) ==
    CASE f = "dec_L1" -> 8
      [] f = "dec_L2" -> 4
      [] f = "dec_L3" -> 2
      [] f = "dec_L4" -> 1
      [] f \in CycleDec -> 1

\* initial x_hist of the copy
CopySeed(c, f, d) ==
    CASE f = "dec_L1" -> Slice(d, 9, 16)
      [] f \in {"dec_L2", "dec_L3", "dec_L4"} -> Slice(d, 1, 8)
      [] f \in CycleDec -> Slice(d, 0, 7)

\* x_hist at the end of an iteration of the copy
CopyHistUpdate(c, f, din, comb) ==
    CASE f = "dec_L1" -> Slice(din, 9, 16)
      [] f = "dec_L2" -> Slice(din, 1, 8)
      [] f = "dec_L3" -> Slice(comb, 4, 11)
      [] f = "dec_L4" -> Slice(comb, 2, 9)
      [] f \in CycleDec -> Slice(comb, 1, 8)

RECURSIVE CopyLoop(_, _, _, _, _, _, _, _, _)
\* the for-i loop of the copy; levels 5..7 toggle the phase, then test it
CopyLoop(c, f, d, hh, n, ii, hist, ph, out) ==
    IF ii >= n THEN [ok |-> TRUE, res |-> out]
    ELSE LET B == CopyBlockSize(c, f)
             ph2 == IF ph = 0 THEN 1 ELSE 0
             din == Slice(d, ii * B, (ii + 1) * B)
             comb == hist \o din
             emit == f \in CycleDec => ph2 = 1
             O == CopyOut(c, f)
         IN  IF emit /\ ~KLoopOK(comb, hh, O)
             THEN [ok |-> FALSE, res |-> <<>>]
             ELSE CopyLoop(c, f, d, hh, n, ii + 1, CopyHistUpdate(c, f, din, comb),
                           ph2, IF emit THEN out \o Ys(KLoop(comb, hh, O)) ELSE out)

\* the call of the copy of level f in script c
CopyStage(c, f, d, hh) ==
    CopyLoop(c, f, d, hh, Len(d) \div CopyBlockSize(c, f), CopyStart(c, f),
             CopySeed(c, f, d), 0, <<>>)

----------------------------------------------------------------------------
(* Properties *)

\* sum over t = 0..7 of comb[start + 7 - t] * hh[t] (0-based), written out
ExplSum(comb, start, hh) ==
      comb[start + 8] * hh[1] + comb[start + 7] * hh[2]
    + comb[start + 6] * hh[3] + comb[start + 5] * hh[4]
    + comb[start + 4] * hh[5] + comb[start + 3] * hh[6]
    + comb[start + 2] * hh[7] + comb[start + 1] * hh[8]

\* block size of a stage as the claims state it
ClaimB(f) ==
    CASE f = "dec_L1" -> 16 [] f = "dec_L2" -> 8 [] f = "dec_L3" -> 4
      [] f = "dec_L4" -> 2 [] f = "res_L3" -> 2 [] f = "res_L2" -> 4
      [] f = "res_L1" -> 8 [] OTHER -> 1

\* the step just taken is an iteration of the loop of the stage
LoopStep == pc = "loop" /\ pc' = "loop" /\ <<i, j>>' # <<i, j>>

\* C1: every output an analysis stage computes from the 8-sample window at
\* offset start_idx of its combined buffer equals the sum over t = 0..7 of
\* combined[start_idx + 7 - t] * h[t]: the window reversed against the
\* forward-ordered coefficients, nothing rounded in between.
Thm_C1 ==
    fn \in DecStages =>
        \A n \in 1..Len(ys) :
            /\ ys[n].start_idx + 8 <= Len(combined)
            /\ ys[n].y = ExplSum(combined, ys[n].start_idx, h)

Wit_C1 ==
    /\ fn = "dec_L3" /\ Len(res) >= 4 /\ Len(ys) = 2
    /\ ys[2].start_idx = 2 /\ ys[2].y # 0 /\ combined[3] # combined[10]

\* C2: in dec_L1..dec_L4 (B_in = 16, 8, 4, 2) every processed block appends
\* exactly B_in/2 outputs to res; the k-th is computed from the window at
\* offset 2k of the combined buffer, which is the 7 history samples followed
\* by the B_in samples of the block, and they are appended in increasing k.
Thm_C2 ==
    [][(fn \in BlockDec /\ LoopStep) =>
          LET B == ClaimB(fn)
              O == B \div 2
          IN  /\ Len(x_hist) = 7
              /\ combined' = x_hist \o SubSeq(data, i * B + 1, (i + 1) * B)
              /\ Len(combined') = 7 + B
              /\ Len(res') = Len(res) + O
              /\ SubSeq(res', 1, Len(res)) = res
              /\ Len(ys') = O
              /\ \A k \in 0..(O - 1) :
                    /\ ys'[k + 1].start_idx = 2 * k
                    /\ res'[Len(res) + k + 1] = ExplSum(combined', 2 * k, h)]_vars

Wit_C2 == fn = "dec_L1" /\ Len(res) = 16 /\ res[9] # res[10] /\ pc = "done"

\* C3: after an analysis stage has processed a block or cycle, x_hist holds
\* exactly 7 samples, the last 7 of the combined buffer of that block; also
\* for the block sizes below 7, where they span more than one chunk.
Thm_C3 ==
    (fn \in DecStages /\ combined # <<>>) =>
        /\ Len(x_hist) = 7
        /\ \A n \in 1..7 : x_hist[n] = combined[Len(combined) - 7 + n]

Wit_C3 ==
    /\ fn = "dec_L4" /\ Len(res) >= 4 /\ Len(combined) = 9
    /\ x_hist[1] # x_hist[7] /\ x_hist[1] = data[2 * i - 6]

\* C4: every processed sample x of a synthesis stage appends exactly two
\* outputs, the even one and then the odd one, where with w the 3 history
\* samples followed by x and h_res[t] = h_dec[7 - t]:
\* even = sum over t = 0..3 of w[3 - t] * h_res[2t],
\* odd  = sum over t = 0..3 of w[3 - t] * h_res[2t + 1].
Thm_C4 ==
    [][(fn \in ResStages /\ LoopStep) =>
          LET x == data[i * ClaimB(fn) + j + 1]
              w == x_hist \o <<x>>
              even == w[4] * h_dec[8] + w[3] * h_dec[6]
                    + w[2] * h_dec[4] + w[1] * h_dec[2]
              odd == w[4] * h_dec[7] + w[3] * h_dec[5]
                   + w[2] * h_dec[3] + w[1] * h_dec[1]
          IN  /\ Len(w) = 4
              /\ res' = res \o <<even, odd>>]_vars

Wit_C4 ==
    /\ fn = "res_L1" /\ Len(res) >= 18 /\ res[17] # 0 /\ res[18] # 0
    /\ res[17] # res[18]

\* C5: after every processed sample of a synthesis stage x_hist holds exactly
\* 3 samples, the last 3 of the 4-sample window just used (the oldest one
\* dropped); in res_L3, res_L2 and res_L1 too the update is made once per
\* sample, after the two outputs of that sample.
Thm_C5 ==
    [][(fn \in ResStages /\ LoopStep) =>
          /\ Len(window') = 4
          /\ SubSeq(window', 1, 3) = x_hist
          /\ window'[4] = data[i * ClaimB(fn) + j + 1]
          /\ x_hist' = <<window'[2], window'[3], window'[4]>>
          /\ Len(res') = Len(res) + 2]_vars

Wit_C5 ==
    /\ fn = "res_L3" /\ j = 1 /\ Len(res) >= 6 /\ Len(x_hist) = 3
    /\ x_hist[1] # x_hist[3]

\* number of outputs appended by the cycles a+1 .. b of a dec_L5..dec_L7 call
Emitted(a, b) ==
    (IF b = 0 THEN 0 ELSE emitLog[b]) - (IF a = 0 THEN 0 ELSE emitLog[a])

\* C6: in dec_L5..dec_L7 every contiguous run of N processed cycles appends
\* floor(N/2) or ceil(N/2) outputs; emitting and non-emitting cycles strictly
\* alternate and no cycle appends more than one output.
Thm_C6 ==
    fn \in CycleDec =>
        /\ Len(res) = Emitted(0, Len(emitLog))
        /\ \A c \in 1..Len(emitLog) : Emitted(c - 1, c) \in {0, 1}
        /\ \A c \in 2..Len(emitLog) : Emitted(c - 2, c - 1) # Emitted(c - 1, c)
        /\ pc = "done" =>
             \A a \in 0..Len(emitLog) : \A b \in a..Len(emitLog) :
                 Emitted(a, b) \in {(b - a) \div 2, (b - a + 1) \div 2}

Wit_C6 == fn = "dec_L6" /\ pc = "done" /\ Len(emitLog) >= 9 /\ Len(res) >= 4

\* C7 as stated: the phase is 0 at stream start and the first processed cycle
\* of dec_L5..dec_L7 appends no output, the second being the first to emit.
Orig_C7 ==
    fn \in CycleDec =>
        /\ (pc = "loop" /\ emitLog = <<>>) => phase = 0
        /\ Len(emitLog) >= 1 => Emitted(0, 1) = 0
        /\ Len(emitLog) >= 2 => Emitted(1, 2) = 1

\* C7 (amended): the phase of dec_L5..dec_L7 is 0 at stream start and is
\* toggled at the beginning of every processed cycle, before the emit test,
\* so the active phase is reached on the first processed input: the first
\* processed cycle appends an output and the second appends none.
Thm_C7 ==
    fn \in CycleDec =>
        /\ (pc = "loop" /\ emitLog = <<>>) => phase = 0
        /\ pc \in {"loop", "done"} => phase = Len(emitLog) % 2
        /\ Len(emitLog) >= 1 => Emitted(0, 1) = 1
        /\ Len(emitLog) >= 2 => Emitted(1, 2) = 0

Wit_C7 == fn = "dec_L5" /\ Len(emitLog) = 2 /\ Len(res) = 1 /\ phase = 0

\* C8: dec_L1 and dec_L2 discard exactly their first block (16 and 8
\* samples): the first outputs come from block 1, with the history seeded
\* from the last 7 samples of block 0.  dec_L5..dec_L7 discard exactly the
\* first 7 single-sample cycles, which only seed the history.
Thm_C8 ==
    /\ fn \in {"dec_L1", "dec_L2"} =>
          LET B == ClaimB(fn)
              first == SubSeq(data, B - 6, 2 * B)
          IN  /\ (pc = "loop" /\ combined = <<>> /\ Len(data) >= B) =>
                     x_hist = SubSeq(data, B - 6, B)
              /\ Len(res) > 0 =>
                     /\ Len(data) >= 2 * B
                     /\ \A k \in 0..(B \div 2 - 1) :
                            res[k + 1] = ExplSum(first, 2 * k, h_dec)
              /\ (pc = "done" /\ Len(data) >= 2 * B) => Len(res) > 0
    /\ fn \in CycleDec =>
          /\ (pc = "loop" /\ combined = <<>> /\ Len(data) >= 7) =>
                 x_hist = SubSeq(data, 1, 7)
          /\ Len(emitLog) = 1 => combined = SubSeq(data, 1, 8)
          /\ Len(res) > 0 => res[1] = ExplSum(SubSeq(data, 1, 8), 0, h_dec)
          /\ (pc = "done" /\ Len(data) >= 7) => Len(emitLog) = Len(data) - 7
          /\ (pc = "done" /\ Len(data) < 7) => emitLog = <<>>

Wit_C8 ==
    \/ fn = "dec_L2" /\ pc = "done" /\ Len(data) = 16 /\ Len(res) = 4 /\ res[1] # 0
    \/ fn = "dec_L7" /\ pc = "done" /\ Len(data) = 8 /\ Len(res) = 1 /\ res[1] # 0

\* the first block a dec_L3 / dec_L4 call processes is block number fst
FirstBlockIs(f, fst) ==
    fn = f =>
        LET B == ClaimB(f)
        IN  /\ Len(res) > 0 => Len(data) >= (fst + 1) * B
            /\ (combined # <<>> /\ Len(res) = B \div 2) =>
                 SubSeq(combined, 8, 7 + B) = SubSeq(data, fst * B + 1, (fst + 1) * B)
            /\ (pc = "done" /\ Len(data) >= (fst + 1) * B) => Len(res) > 0

\* C9 as stated: dec_L3 and dec_L4 each discard exactly their first two
\* blocks, the first output of each being computed from block index 2.
Orig_C9 == FirstBlockIs("dec_L3", 2) /\ FirstBlockIs("dec_L4", 2)

\* C9 (amended): dec_L3 discards exactly its first two blocks (of 4 samples)
\* and dec_L4 exactly its first four blocks (of 2 samples), 8 samples each:
\* the first output of dec_L3 is computed from block index 2, that of dec_L4
\* from block index 4.
Thm_C9 == FirstBlockIs("dec_L3", 2) /\ FirstBlockIs("dec_L4", 4)

Wit_C9 ==
    /\ fn = "dec_L4" /\ Len(res) = 1 /\ Len(combined) = 9
    /\ combined[8] = 9 /\ combined[9] = 10 /\ data[9] = 9

\* C10: the trailing N mod B samples of the input of a stage are ignored:
\* the call returns what it returns on the first B * floor(N / B) samples,
\* and it does not raise.
Thm_C10 ==
    /\ pc # "raised"
    /\ pc = "done" =>
          LET B == ClaimB(fn)
              whole == SubSeq(data, 1, B * (Len(data) \div B))
          IN  Stage(fn, whole, h) = [ok |-> TRUE, res |-> res]

Wit_C10 ==
    /\ pc = "done" /\ fn = "res_L1" /\ Len(data) = 19 /\ Len(res) = 16
    /\ data[17] # 0 /\ res[16] # 0

\* number of leading blocks a multi-sample-block level discards, as claimed
ClaimSkip(f) == IF f \in {"res_L3", "dec_L3"} THEN 2 ELSE 1

\* the analysis level with the index of a synthesis level
DecOf(f) ==
    CASE f = "res_L1" -> "dec_L1" [] f = "res_L2" -> "dec_L2"
      [] f = "res_L3" -> "dec_L3"

\* C11: res_L1 and res_L2 discard exactly their first block (8 and 4
\* samples) and res_L3 exactly its first two blocks (2 samples each), as
\* many blocks as the analysis level of the same index; each seeds its
\* 3-sample history from the last 3 discarded samples.
Thm_C11 ==
    fn \in BlockRes =>
        LET B == ClaimB(fn)
            S == ClaimSkip(fn)
        IN  /\ S = LoopStart(DecOf(fn))
            /\ Len(res) > 0 => Len(data) >= (S + 1) * B
            /\ (pc = "done" /\ Len(data) >= (S + 1) * B) => Len(res) > 0
            /\ (pc = "loop" /\ window = <<>> /\ Len(data) >= S * B) =>
                   x_hist = SubSeq(data, S * B - 2, S * B)
            /\ Len(res) = 2 => window = SubSeq(data, S * B - 2, S * B + 1)

Wit_C11 ==
    \/ fn = "res_L3" /\ Len(res) = 2 /\ window = <<2, 3, 4, 5>>
    \/ fn = "res_L1" /\ Len(res) = 2 /\ window = <<6, 7, 8, 9>>

\* the raw input of the cascade being executed
CascadeInput == IF runs = <<>> THEN data ELSE runs[1].data

AllZero(s) == \A n \in 1..Len(s) : s[n] = 0

\* C12: on the constant-zero input of length 16 x 100 every output sample of
\* every analysis level is exactly 0 and so is every sample of the
\* reconstructed baseline (the output of res_L1).
Thm_C12 ==
    (Len(CascadeInput) = 16 * 100 /\ AllZero(CascadeInput)) =>
        /\ \A k \in 1..Len(runs) : AllZero(runs[k].res)
        /\ AllZero(res)
        /\ pc # "raised"

Wit_C12 ==
    /\ pc = "done" /\ fn = "res_L1" /\ Len(runs) = 14
    /\ Len(CascadeInput) = 16 * 100 /\ AllZero(CascadeInput)
    /\ Len(runs[1].res) = 792 /\ Len(runs[7].res) = 6 /\ Len(runs[11].res) = 6

\* 0-based index of the input sample the window of output 0 ends at
ClaimOffset(f) ==
    CASE f = "dec_L1" -> 16
      [] f \in {"dec_L2", "dec_L3", "dec_L4"} -> 8
      [] f \in CycleDec -> 7

\* 1-based indices of the nonzero samples
Support(s) == {n \in 1..Len(s) : s[n] # 0}

\* C13: for an input that is zero but for one sample the output of every
\* analysis level is nonzero only inside one window of fewer than 8
\* consecutive output indices; in the stage the impulse x[p] is given to,
\* output m is nonzero only if its 8-sample window, which ends at input
\* index s + 2m, contains p: at most 4 consecutive outputs.
Thm_C13 ==
    /\ pc # "raised"
    /\ \A a, b \in Support(res) : b - a <= 6
    /\ runs = <<>> =>
          LET p == CHOOSE n \in 0..(Len(data) - 1) : data[n + 1] # 0
              s == ClaimOffset(fn)
          IN  /\ \A m1 \in Support(res) :
                     s + 2 * (m1 - 1) - 7 <= p /\ p <= s + 2 * (m1 - 1)
              /\ Cardinality(Support(res)) <= 4

Wit_C13 ==
    /\ fn = "dec_L7" /\ Len(runs) = 6 /\ runs[1].fn = "dec_L1" /\ pc = "done"
    /\ Support(res) # {} /\ Cardinality(Support(runs[1].res)) = 4
    /\ Cardinality(Support(runs[3].res)) > 4

\* the integer a string of bits denotes in two's complement
RECURSIVE BitsValue(_, _)
BitsValue(bits, n) ==
    IF n = 0 THEN 0 ELSE 2 * BitsValue(bits, n - 1) + bits[n]

TwosValue(bits) ==
    BitsValue(bits, Len(bits)) - bits[1] * 2 ^ Len(bits)

\* C14: the quantized form of q = round(value * 2^frac_bits) in total_bits
\* bits denotes the integer of [-2^(total_bits-1), 2^(total_bits-1) - 1]
\* congruent to q modulo 2^total_bits: q is reduced modulo 2^total_bits and
\* read as signed; a q outside the range wraps and is never clamped.
Thm_C14 ==
    num.pc \in {"table", "token", "done"} =>
        LET w == num.bits
            q == num.int_val
            lo == -(2 ^ (w - 1))
            hi == 2 ^ (w - 1) - 1
            r == TwosValue(num.bin_str)
        IN  /\ Len(num.bin_str) = w
            /\ \A n \in 1..w : num.bin_str[n] \in {0, 1}
            /\ BitsValue(num.bin_str, w) = num.twos_comp
            /\ lo <= r /\ r <= hi
            /\ (q - r) % (2 ^ w) = 0
            /\ (q > hi /\ (q - hi) % (2 ^ w) # 0) => r # hi
            /\ (q < lo /\ (lo - q) % (2 ^ w) # 0) => r # lo

Wit_C14 ==
    /\ num.pc = "table" /\ num.bits = TOTAL_WIDTH
    /\ num.int_val = 2 ^ (TOTAL_WIDTH - 1) /\ TwosValue(num.bin_str) = -(2 ^ (TOTAL_WIDTH - 1))

\* C15: for every width w, str2dec with that width returns q on the token of
\* the pattern q & (2^w - 1) of every q in [-2^(w-1), 2^(w-1) - 1], and on
\* the token of a pattern v of [0, 2^w - 1] it returns v when v < 2^(w-1)
\* and v - 2^w otherwise.
Thm_C15 ==
    num.pc = "done" =>
        LET w == num.bits
            q == num.int_val
            v == num.twos_comp
        IN  /\ v \in 0..(2 ^ w - 1)
            /\ v < 2 ^ (w - 1) => num.val = v
            /\ v >= 2 ^ (w - 1) => num.val = v - 2 ^ w
            /\ (-(2 ^ (w - 1)) <= q /\ q <= 2 ^ (w - 1) - 1) => num.val = q

Wit_C15 ==
    /\ num.pc = "done" /\ num.bits = DATA_WIDTH /\ num.int_val = -(2 ^ 15)
    /\ num.token = <<8, 0, 0, 0>> /\ num.val = -(2 ^ 15)

\* C16: a windowed sum that needs more bits than the internal accumulator
\* width makes the stage abort; it is never appended to the output that
\* is passed on to the next stage.
Orig_C16 ==
    /\ \A n \in 1..Len(ys) : ~AccFits(ys[n].y) => pc = "raised"
    /\ \A n \in 1..Len(res) : AccFits(res[n])

\* C17: an absent trace file, or one holding a token that cannot be parsed,
\* is reported and never ends the run: the script does not leave through
\* exit() or an uncaught exception, and at its end every cascade of the
\* script has been computed.
Orig_C17 ==
    /\ tr.pc \notin {"exit", "traceback"}
    /\ tr.pc = "end" =>
           tr.computed = IF tr.script = "a171_error_analysis"
                         THEN <<"analysis", "synthesis">> ELSE <<"analysis">>

\* the stages that have run are a prefix of the cascade order and the running
\* stage is the next one; dec_L1 got the raw input, every other stage the
\* output of the stage before it; that output is what the stage function
\* returns for its input (computed again for inputs of up to MaxLen
\* samples)
CascadeInv ==
    LET n == Len(runs)
        raw == {c[1] : c \in CascadeCases}
    IN  /\ n <= Len(CascadeOrder)
        /\ \A k \in 1..n : runs[k].fn = CascadeOrder[k]
        /\ pc # "done" => n < Len(CascadeOrder) /\ fn = CascadeOrder[n + 1]
        /\ pc = "done" => n = Len(CascadeOrder)
        /\ IF n = 0 THEN data \in raw ELSE runs[1].data \in raw
        /\ \A k \in 2..n : runs[k].data = runs[k - 1].res
        /\ n > 0 /\ pc # "done" => data = runs[n].res
        /\ n > 0 /\ Len(runs[n].data) <= MaxLen =>
               LET r == runs[n]
                   hh == IF (r.fn \in DecStages) = (fn \in DecStages)
                         THEN h ELSE Reverse(h)
               IN  r.res = Stage(r.fn, r.data, hh).res

\* a stage is left only when its loop has run to its end, for the stage that
\* follows it in the cascade order, which gets the output as its input
HandOver ==
    fn' # fn =>
        /\ pc = "loop"
        /\ i >= num_cycles
        /\ fn' = NextStage(fn)
        /\ data' = res
        /\ pc' = "call"

\* C18: the stages run strictly one after another in the order dec_L1 ..
\* dec_L7, res_L7 .. res_L1; the input of each stage is exactly the complete
\* output of the stage before it, and no stage starts before its predecessor
\* has run its loop to the end.
Thm_C18 == [](CascadeInv) /\ [][HandOver]_vars

Wit_C18 ==
    /\ pc = "done"
    /\ Len(runs) = Len(CascadeOrder)
    /\ runs[Len(runs)].res # <<>>
    /\ \E n \in 1..Len(res) : res[n] # 0

\* C19: every call starts, whatever ran before it, with a history that is a
\* stretch of its own input and, in dec_L5..dec_L7, with phase 0; the output
\* of a call is the output of the stage function for its input alone, so two
\* calls on equal inputs return equal outputs.
Thm_C19 ==
    /\ pc = "loop" /\ i = LoopStart(fn) /\ j = 0 /\ res = <<>> =>
           /\ \E a \in 0..Len(data) : x_hist = Slice(data, a, a + Len(x_hist))
           /\ fn \in CycleDec => phase = 0
    /\ \A a \in 1..Len(runs) :
           runs[a].res = Stage(runs[a].fn, runs[a].data, HFor(runs[a].fn)).res
    /\ pc = "done" => res = Stage(fn, data, h).res
    /\ \A a, b \in 1..Len(runs) :
           runs[a].fn = runs[b].fn /\ runs[a].data = runs[b].data =>
               runs[a].res = runs[b].res

\* dec_L5 called twice on the 12 samples that leave it with phase 1
Wit_C19 ==
    /\ Len(runs) >= 2
    /\ \E a \in 1..Len(runs) - 1 :
           /\ runs[a].fn = "dec_L5"
           /\ runs[a + 1].fn = "dec_L5"
           /\ Len(runs[a].data) = 12
           /\ runs[a + 1].data = runs[a].data
           /\ runs[a].res # <<>>

\* C20: no step of a stage call changes its arguments: the input samples
\* and the coefficient vector keep their length and their values in their
\* order from the call to the return; what a step changes is the history,
\* the phase, the loop position and the output of the call.
Thm_C20 ==
    [][/\ fn' = fn
       /\ Len(data') = Len(data)
       /\ data' = data
       /\ Len(h') = Len(h)
       /\ h' = h
       /\ UNCHANGED aux]_vars

\* a call on a non-empty input has returned a non-empty output
Wit_C20 ==
    /\ pc = "done"
    /\ fn \in {"dec_L1", "res_L3"}
    /\ Len(data) >= 2 * block_size(fn)
    /\ res # <<>>
    /\ \E n \in 1..Len(data) : data[n] # 0

\* C21: the m-th output (m >= 0) of an analysis stage is the sum over
\* j = 0..7 of h[j] * x[s + 2m - j] of its input x, with s = 16 for dec_L1,
\* s = 8 for dec_L2..dec_L4 and s = 7 for dec_L5..dec_L7, whatever block the
\* samples were read in.
Thm_C21 ==
    /\ pc # "raised"
    /\ fn \in DecStages =>
           \A m \in 0..(Len(res) - 1) :
               LET s == ClaimOffset(fn)
               IN  /\ s + 2 * m + 1 <= Len(data)
                   /\ res[m + 1] = ExplSum(data, s + 2 * m - 7, h_dec)

Wit_C21 ==
    \/ fn = "dec_L1" /\ pc = "done" /\ Len(res) = 16 /\ res[16] # res[1]
    \/ fn = "dec_L6" /\ pc = "done" /\ Len(res) = 5 /\ res[5] # res[1]

\* C22: when an analysis stage with block size B is about to process the
\* chunk starting at stream index p, the first processed chunk included, its
\* history is x[p-7 .. p-1]; when a synthesis stage is about to process the
\* sample x[p], its history is x[p-3 .. p-1].
Thm_C22 ==
    (pc = "loop" /\ i < num_cycles) =>
        LET p == i * ClaimB(fn) + j
            d == IF fn \in DecStages THEN 7 ELSE 3
        IN  /\ p >= d
            /\ Len(x_hist) = d
            /\ \A n \in 1..d : x_hist[n] = data[p - d + n]

Wit_C22 ==
    /\ pc = "loop" /\ i < num_cycles /\ res # <<>>
    /\ \/ fn = "dec_L3" /\ i = 5 /\ x_hist[1] # x_hist[7]
       \/ fn = "res_L1" /\ i = 2 /\ j = 3 /\ x_hist[1] # x_hist[3]

Max0(x) == IF x > 0 THEN x ELSE 0

\* output length of an analysis stage for N input samples, as claimed
ClaimLen(f, N) ==
    CASE f = "dec_L1" -> 8 * Max0(N \div 16 - 1)
      [] f = "dec_L2" -> 4 * Max0(N \div 8 - 1)
      [] f = "dec_L3" -> 2 * Max0(N \div 4 - 2)
      [] f = "dec_L4" -> Max0(N \div 2 - 4)
      [] f \in CycleDec -> (Max0(N - 7) + 1) \div 2

\* C23: for N input samples dec_L1 returns 8*max(0, floor(N/16) - 1)
\* samples, dec_L2 4*max(0, floor(N/8) - 1), dec_L3 2*max(0, floor(N/4) - 2),
\* dec_L4 max(0, floor(N/2) - 4) and dec_L5..dec_L7 ceil(max(0, N - 7)/2);
\* an input shorter than the warm-up gives an empty output and no error.
Thm_C23 ==
    fn \in DecStages =>
        /\ pc # "raised"
        /\ pc = "done" => Len(res) = ClaimLen(fn, Len(data))

Wit_C23 ==
    /\ pc = "done"
    /\ \/ fn = "dec_L3" /\ Len(data) = 23 /\ Len(res) = 6
       \/ fn = "dec_L5" /\ Len(data) = 12 /\ Len(res) = 3
       \/ fn = "dec_L1" /\ Len(data) = 15 /\ res = <<>>

\* 0-based index of the first sample of the sub-sequence of C25
ClaimFrom(f) == IF f = "res_L1" THEN 5 ELSE 1

\* C25: res_L3(d), res_L2(d) and res_L1(d) return what the single-sample
\* procedure of res_L7 returns on d[1 .. 2*floor(N/2) - 1],
\* d[1 .. 4*floor(N/4) - 1] and d[5 .. 8*floor(N/8) - 1], the empty output
\* when fewer than one block remains after the warm-up.
Thm_C25 ==
    fn \in BlockRes =>
        /\ pc # "raised"
        /\ pc = "done" =>
               LET B == ClaimB(fn)
                   sub == Slice(data, ClaimFrom(fn), B * (Len(data) \div B))
               IN  Stage("res_L7", sub, h) = [ok |-> TRUE, res |-> res]

Wit_C25 ==
    /\ pc = "done"
    /\ \/ fn = "res_L1" /\ Len(data) = 27 /\ Len(res) = 32 /\ res[32] # 0
       \/ fn = "res_L3" /\ Len(data) = 9 /\ Len(res) = 8 /\ res[1] # 0
       \/ fn = "res_L2" /\ Len(data) = 7 /\ res = <<>>

\* leading blocks an analysis level discards
ClaimSkipDec(f) == IF f = "dec_L3" THEN 2 ELSE 1

\* C24: for a raw input of a multiple of 16 samples the outputs of dec_L1,
\* dec_L2 and dec_L3 have lengths that are multiples of 8, 4 and 2, so the
\* level after each has no trailing partial block; every processed block of
\* a level appends exactly one input block of the next level, so block q of
\* the input of level L+1 is what level L appended for its q-th processed
\* block.
Thm_C24 ==
    Len(CascadeInput) % 16 = 0 =>
        /\ pc # "raised"
        /\ \A k \in 1..Len(runs) :
               /\ Len(runs[k].res) % (ClaimB(runs[k].fn) \div 2) = 0
               /\ Len(runs[k].data) % ClaimB(runs[k].fn) = 0
        /\ Len(data) % ClaimB(fn) = 0
        /\ (fn \in {"dec_L1", "dec_L2", "dec_L3"} /\ pc = "loop") =>
               LET O == ClaimB(fn) \div 2
                   q == Len(res) \div O
               IN  /\ Len(res) % O = 0
                   /\ q = Max0(i - ClaimSkipDec(fn))
                   /\ q > 0 => Ys(ys) = SubSeq(res, (q - 1) * O + 1, q * O)

Wit_C24 ==
    /\ fn = "dec_L4" /\ pc = "done" /\ Len(runs) = 3
    /\ Len(CascadeInput) = 16 * 9
    /\ Len(runs[1].res) = 64 /\ Len(runs[2].res) = 28 /\ Len(runs[3].res) = 10
    /\ Len(res) = 1 /\ res[1] # 0

\* C26: every processed cycle of dec_L5..dec_L7 toggles the phase once and
\* shifts the history by one sample (oldest dropped, new input appended),
\* emitting or not; a non-emitting cycle leaves the output unchanged, an
\* emitting one appends the single output computed at offset 0 of the
\* 8-sample combined buffer.
Thm_C26 ==
    [][(fn \in CycleDec /\ LoopStep) =>
          LET x == data[i + 1]
          IN  /\ phase' = 1 - phase
              /\ phase' \in {0, 1}
              /\ combined' = x_hist \o <<x>>
              /\ Len(combined') = 8
              /\ x_hist' = Tail(x_hist) \o <<x>>
              /\ phase' = 0 => res' = res
              /\ phase' = 1 => res' = Append(res, ExplSum(combined', 0, h))
              /\ i' = i + 1]_vars

Wit_C26 ==
    /\ fn = "dec_L7" /\ pc = "loop" /\ Len(emitLog) = 4 /\ phase = 0
    /\ Len(res) = 2 /\ x_hist[7] = data[11] /\ x_hist[1] # x_hist[7]

\* output lengths of the 14 stages in cascade order
RunLens == [k \in 1..Len(runs) |-> Len(runs[k].res)]

\* C27 as stated: for an input of 16 x 100 samples each of the 14 stages
\* appends at least one output and res_L1 returns at least 16 samples.
Orig_C27 ==
    (pc = "done" /\ Len(CascadeInput) = 16 * 100) =>
        /\ \A k \in 1..Len(runs) : runs[k].res # <<>>
        /\ Len(res) >= 16

\* C27 (amended): for an input of 16 x 100 samples dec_L1..dec_L7 return
\* 792, 392, 192, 92, 43, 18 and 6 samples, res_L7..res_L4 6 samples each,
\* res_L3 4 samples and res_L2 and res_L1 none: the reconstructed baseline is
\* empty.  An input of 16 x 106 samples gives a baseline of 112 samples.
Thm_C27 ==
    /\ pc # "raised"
    /\ pc = "done" =>
           /\ Len(runs) = 14
           /\ res = runs[14].res
           /\ Len(CascadeInput) = 16 * 100 =>
                  RunLens = <<792, 392, 192, 92, 43, 18, 6, 6, 6, 6, 6, 4, 0, 0>>
           /\ Len(CascadeInput) = 16 * 106 =>
                  RunLens = <<840, 416, 204, 98, 46, 20, 7, 8, 10, 14, 22, 36, 64, 112>>

Wit_C27 ==
    /\ pc = "done" /\ fn = "res_L1" /\ Len(CascadeInput) = 16 * 100
    /\ Len(runs) = 14 /\ runs[12].res # <<>> /\ runs[13].res = <<>>
    /\ data = <<>> /\ res = <<>>

\* the tokens of the file in the order they are read
RECURSIVE Flat(_)
Flat(ls) == IF ls = <<>> THEN <<>> ELSE Head(ls) \o Flat(Tail(ls))

\* C28: the token x_gen writes for a signed 16-bit sample v (v & 0xFFFF as
\* 4 hexadecimal digits) is parsed back by hw_vs_sw to v, for every v; the
\* file holds num_test_cycles lines of exactly 16 tokens in stream order,
\* so the sequence read back is the sequence written and its length is a
\* multiple of 16.
Thm_C28 ==
    tr.script = "x_gen" =>
        /\ \A n \in 1..Len(tr.lines) :
               /\ Len(tr.lines[n]) = 16
               /\ \A k \in 1..16 : Len(tr.lines[n][k]) = 4
        /\ (tr.pc = "write" /\ tr.samples = <<>>) =>
               \A v \in -32768..32767 :
                   ParseSample(Digits(AndMask(v, 16), 16, 4)) = v
        /\ tr.pc \in {"read", "end"} =>
               /\ Len(tr.lines) = tr.num_test_cycles
               /\ \A n \in 1..Len(tr.samples) :
                      ParseSample(Flat(tr.lines)[n]) = tr.samples[n]
        /\ tr.pc = "end" =>
               /\ tr.read_data = tr.samples
               /\ Len(tr.read_data) % 16 = 0

Wit_C28 ==
    /\ tr.script = "x_gen" /\ tr.pc = "end" /\ Len(tr.read_data) = 48
    /\ \E n \in 1..48 : tr.read_data[n] = -32768
    /\ \E n \in 1..48 : tr.read_data[n] = 32767

\* C29: for a source of N samples x_read_write writes ceil(N/16) lines of
\* exactly 16 tokens; the first N tokens are the samples in order and, when
\* N is not a multiple of 16, the rest of the last line is the token 0000;
\* the file holds a multiple of 16 samples and no source sample is lost.
Thm_C29 ==
    tr.script = "x_read_write" =>
        LET N == Len(tr.samples)
            toks == Flat(tr.lines)
        IN  /\ \A n \in 1..Len(tr.lines) : Len(tr.lines[n]) = 16
            /\ tr.pc \in {"read", "end"} =>
                   /\ Len(tr.lines) = (N + 15) \div 16
                   /\ Len(toks) % 16 = 0
                   /\ Len(toks) >= N
                   /\ \A n \in 1..N :
                          toks[n] = Digits(tr.samples[n] % 65536, 16, 4)
                   /\ \A n \in (N + 1)..Len(toks) : toks[n] = <<0, 0, 0, 0>>
            /\ tr.pc = "end" =>
                   /\ Len(tr.read_data) = 16 * ((N + 15) \div 16)
                   /\ SubSeq(tr.read_data, 1, N) = tr.samples

Wit_C29 ==
    /\ tr.script = "x_read_write" /\ tr.pc = "end"
    /\ Len(tr.samples) = 37 /\ Len(tr.lines) = 3
    /\ tr.lines[3][5] # <<0, 0, 0, 0>> /\ tr.lines[3][6] = <<0, 0, 0, 0>>
    /\ tr.read_data[37] # 0 /\ tr.read_data[48] = 0

\* C30: the copies of the analysis stages in a14_error_analysis.py (levels
\* 1..4), a12_error_anlaysis.py (levels 1, 2) and
\* a17_error_analysis_unwrapper.py (levels 1..7) return, for the same input
\* and coefficients, what the function of that level returns here; the
\* copies of levels 3 and 4 skip the same warm-up blocks and take the same
\* history seed.
Thm_C30 ==
    (pc = "done" /\ fn \in DecStages) =>
        \A c \in Copies :
            CopyHas(c, fn) =>
                /\ CopyStage(c, fn, data, h) = [ok |-> TRUE, res |-> res]
                /\ fn \in {"dec_L3", "dec_L4"} =>
                       /\ CopyStart(c, fn) = (IF fn = "dec_L3" THEN 2 ELSE 4)
                       /\ CopySeed(c, fn, data) = Slice(data, 1, 8)
                       /\ Len(res) = ClaimLen(fn, Len(data))

Wit_C30 ==
    /\ pc = "done" /\ fn = "dec_L4" /\ Len(data) = 21 /\ Len(res) = 6
    /\ res[1] # 0 /\ res[6] # res[1]
    /\ CopyHas("a14_error_analysis", fn) /\ ~CopyHas("a12_error_anlaysis", fn)

====
